---------------------------- MODULE Spec2Model ----------------------------
(***************************************************************************)
(* Model of scripts/compare_benchmarks.py: the BenchmarkComparator class   *)
(* and the main() entry point of the benchmark regression detection tool.  *)
(*                                                                         *)
(* Numbers.  The program computes with Python floats.  The model computes  *)
(* with exact rationals <<n, d>> (d > 0); measurement values are integers. *)
(* Binary rounding of the float operations is therefore not represented.   *)
(***************************************************************************)
EXTENDS Integers, Sequences, FiniteSets, TLC

VARIABLES
    files,              \* the two documents on disk: [baseline |-> f, current |-> f]
    exit_on_regression, \* args.exit_on_regression
    output,             \* args.output given (report goes to a file)
    pc,                 \* position of main()
    baseline_data,      \* self.baseline_data (<<>> while unset)
    current_data,       \* self.current_data (<<>> while unset)
    warnings,           \* self.warnings
    critical_issues,    \* self.critical_issues
    results,            \* what the last generate_report computed
    report,             \* the last text generate_report returned (<<>>: none)
    first,              \* snapshot taken when generate_report first returned
    generated,          \* number of completed generate_report calls
    stdout,             \* what was printed
    stderr,             \* the traceback of an uncaught exception, if any
    outfile,            \* contents written to args.output (<<>>: none)
    exit_code           \* <<>> while running, <<status>> once the process ended

vars == <<files, exit_on_regression, output, pc, baseline_data, current_data,
          warnings, critical_issues, results, report, first, generated,
          stdout, stderr, outfile, exit_code>>

-----------------------------------------------------------------------------
(* Bounds of the model *)

\* longest sequence of records the current document holds
MaxRecords == 2

\* how many times a client calls generate_report on one comparator (SpecRepeat)
MaxGenerations == 2

-----------------------------------------------------------------------------
(* Exact rationals <<n, d>>, d > 0 *)

RECURSIVE Gcd(_, _)
Gcd(a, b) == IF b = 0 THEN a ELSE Gcd(b, a % b)

Abs(i) == IF i < 0 THEN -i ELSE i

\* n/d in lowest terms with a positive denominator
Frac(n, d) ==
    LET g == Gcd(Abs(n), Abs(d))
    IN  IF g = 0 THEN <<n, d>>
        ELSE IF d < 0 THEN <<(-n) \div g, (-d) \div g>>
        ELSE <<n \div g, d \div g>>
Zero == <<0, 1>>
FInt(i) == <<i, 1>>
FGt(a, b) == a[1] * b[2] > b[1] * a[2]
FLt(a, b) == a[1] * b[2] < b[1] * a[2]
FEq(a, b) == a[1] * b[2] = b[1] * a[2]
FSub(a, b) == Frac(a[1] * b[2] - b[1] * a[2], a[2] * b[2])
FNeg(a) == <<-a[1], a[2]>>
FAbs(a) == IF a[1] < 0 THEN FNeg(a) ELSE a
FMul(a, k) == Frac(a[1] * k, a[2])

\* n/d (d > 0) rounded to the nearest integer, ties to even
Round(n, d) ==
    LET q == n \div d
        r == n % d
    IN  IF 2 * r > d THEN q + 1
        ELSE IF 2 * r < d THEN q
        ELSE IF q % 2 = 0 THEN q ELSE q + 1

\* format specs ".1f" and ".2f": the value in tenths / hundredths
Fixed1(a) == Round(a[1] * 10, a[2])
Fixed2(a) == Round(a[1] * 100, a[2])

-----------------------------------------------------------------------------
(* Static configuration *)

\* keyed by category and level: REGRESSION_THRESHOLDS[f'{category}_{level}']
REGRESSION_THRESHOLDS ==
    [core_latency    |-> [warning |-> <<10, 100>>, critical |-> <<25, 100>>],
     safety_overhead |-> [warning |-> <<5, 100>>,  critical |-> <<15, 100>>],
     throughput      |-> [warning |-> <<15, 100>>, critical |-> <<30, 100>>],
     memory          |-> [warning |-> <<20, 100>>, critical |-> <<50, 100>>]]

\* the literal 0.05 of the two assess functions
ImprovementCutoff == <<5, 100>>

core_benchmarks ==
    <<"BM_MakeMove_ShortChain_mean",
      "BM_MakeMove_MediumChain_mean",
      "BM_MakeMove_LongChain_mean">>

safety_benchmarks ==
    <<"BM_SafetyLevel_Comparison/0_mean", "BM_SafetyLevel_Comparison/1_mean">>

memory_benchmarks ==
    <<"BM_MakeMove_MemoryTracking/64_mean",
      "BM_MakeMove_MemoryTracking/256_mean">>

\* Optional[Dict]: the value None
None == [none |-> TRUE]

-----------------------------------------------------------------------------
(* Loader and lookup *)

\* 'benchmarks' in data: a key test on a mapping, an element test on a list
\* (whose elements are records, never the string)
HasBenchmarksKey(json) ==
    IF json.shape = "wrapped" THEN "benchmarks" \in DOMAIN json.value ELSE FALSE

\* _load_json: what it returns for a document that parsed
NormalizeJson(json) ==
    IF HasBenchmarksKey(json) THEN json.value ELSE [benchmarks |-> json.value]

LoadFails(file) == file.kind \in {"NotFound", "Malformed"}

LoadErrorMessage(file, filename) ==
    IF file.kind = "NotFound"
    THEN <<"Error: File", filename, "not found">>
    ELSE <<"Error: Invalid JSON in", filename>>

\* bench.get(key, 0)
GetOrZero(bench, key) == IF key \in DOMAIN bench THEN bench[key] ELSE 0

\* _get_benchmark_by_name: the first record whose name matches, or None
GetBenchmarkByName(benchmarks, name) ==
    LET hits == {i \in 1..Len(benchmarks) :
                    /\ "name" \in DOMAIN benchmarks[i]
                    /\ benchmarks[i].name = name}
    IN  IF hits = {} THEN None
        ELSE benchmarks[CHOOSE i \in hits : \A j \in hits : i <= j]

\* truth value of an Optional[Dict] (a record found by name is a non-empty dict)
Truthy(bench) == bench # None

-----------------------------------------------------------------------------
(* Arithmetic, classification, formatting *)

\* mutant of _calculate_percentage_change: the ratio, not the change
CalculateRatio(baseline, current) ==
    IF baseline = 0 THEN Zero ELSE Frac(current, baseline)

\* _calculate_percentage_change
CalculatePercentageChange(baseline, current) ==
    IF baseline = 0 THEN Zero ELSE Frac(current - baseline, baseline)

\* mutant of _assess_performance_change: inclusive thresholds (>=)
AssessPerformanceChangeInclusive(change, category) ==
    LET warning_threshold  == REGRESSION_THRESHOLDS[category].warning
        critical_threshold == REGRESSION_THRESHOLDS[category].critical
    IN  IF ~FLt(change, critical_threshold) THEN "CRITICAL"
        ELSE IF ~FLt(change, warning_threshold) THEN "WARNING"
        ELSE IF FLt(change, FNeg(ImprovementCutoff)) THEN "IMPROVEMENT"
        ELSE "OK"

\* _assess_performance_change
AssessPerformanceChange(change, category) ==
    LET warning_threshold  == REGRESSION_THRESHOLDS[category].warning
        critical_threshold == REGRESSION_THRESHOLDS[category].critical
    IN  IF FGt(change, critical_threshold) THEN "CRITICAL"
        ELSE IF FGt(change, warning_threshold) THEN "WARNING"
        ELSE IF FLt(change, FNeg(ImprovementCutoff)) THEN "IMPROVEMENT"
        ELSE "OK"

\* mutant of _assess_throughput_change: the polarity of latency
AssessThroughputChangeAsLatency(change) ==
    IF FGt(change, REGRESSION_THRESHOLDS.throughput.critical) THEN "CRITICAL"
    ELSE IF FGt(change, REGRESSION_THRESHOLDS.throughput.warning) THEN "WARNING"
    ELSE IF FLt(change, FNeg(ImprovementCutoff)) THEN "IMPROVEMENT"
    ELSE "OK"

\* _assess_throughput_change
AssessThroughputChange(change) ==
    IF FLt(change, FNeg(REGRESSION_THRESHOLDS.throughput.critical)) THEN "CRITICAL"
    ELSE IF FLt(change, FNeg(REGRESSION_THRESHOLDS.throughput.warning)) THEN "WARNING"
    ELSE IF FGt(change, ImprovementCutoff) THEN "IMPROVEMENT"
    ELSE "OK"

\* _format_time: the number in hundredths, and the unit
FormatTime(time_us) ==
    IF time_us < 1 THEN <<Fixed2(FInt(time_us * 1000)), "ns">>
    ELSE IF time_us < 1000 THEN <<Fixed2(FInt(time_us)), "us">>
    ELSE <<Fixed2(<<time_us, 1000>>), "ms">>

-----------------------------------------------------------------------------
(* The three comparisons.  Each takes the comparator's two lists as they   *)
(* are when it is called and returns them as it leaves them, with its      *)
(* results.                                                                *)

\* mutant of the loop body: 'if' for 'elif', a critical change is also a warning
CoreIterationBothLists(acc, bench_name) ==
    LET baseline == GetBenchmarkByName(baseline_data.benchmarks, bench_name)
        current  == GetBenchmarkByName(current_data.benchmarks, bench_name)
        baseline_time == GetOrZero(baseline, "cpu_time")
        current_time  == GetOrZero(current, "cpu_time")
        change == CalculatePercentageChange(baseline_time, current_time)
        entry == [name           |-> bench_name,
                  baseline_time  |-> baseline_time,
                  current_time   |-> current_time,
                  change_percent |-> FMul(change, 100),
                  status |-> AssessPerformanceChange(change, "core_latency")]
        message(level) ==
            [level |-> level, subject |-> bench_name, what |-> "increased by",
             percent |-> Fixed1(FMul(change, 100)),
             from |-> FormatTime(baseline_time), to |-> FormatTime(current_time)]
    IN  IF ~(Truthy(baseline) /\ Truthy(current)) THEN acc
        ELSE IF FGt(change, REGRESSION_THRESHOLDS.core_latency.critical)
        THEN [acc EXCEPT !.results = Append(@, entry),
                         !.critical_issues = Append(@, message("CRITICAL")),
                         !.warnings = Append(@, message("WARNING"))]
        ELSE IF FGt(change, REGRESSION_THRESHOLDS.core_latency.warning)
        THEN [acc EXCEPT !.results = Append(@, entry),
                         !.warnings = Append(@, message("WARNING"))]
        ELSE [acc EXCEPT !.results = Append(@, entry)]

\* mutant of the loop body: 'or' for 'and', one record is enough
CoreIterationEither(acc, bench_name) ==
    LET baseline == GetBenchmarkByName(baseline_data.benchmarks, bench_name)
        current  == GetBenchmarkByName(current_data.benchmarks, bench_name)
        baseline_time == GetOrZero(baseline, "cpu_time")
        current_time  == GetOrZero(current, "cpu_time")
        change == CalculatePercentageChange(baseline_time, current_time)
        entry == [name           |-> bench_name,
                  baseline_time  |-> baseline_time,
                  current_time   |-> current_time,
                  change_percent |-> FMul(change, 100),
                  status |-> AssessPerformanceChange(change, "core_latency")]
        message(level) ==
            [level |-> level, subject |-> bench_name, what |-> "increased by",
             percent |-> Fixed1(FMul(change, 100)),
             from |-> FormatTime(baseline_time), to |-> FormatTime(current_time)]
    IN  IF ~(Truthy(baseline) \/ Truthy(current)) THEN acc
        ELSE IF FGt(change, REGRESSION_THRESHOLDS.core_latency.critical)
        THEN [acc EXCEPT !.results = Append(@, entry),
                         !.critical_issues = Append(@, message("CRITICAL"))]
        ELSE IF FGt(change, REGRESSION_THRESHOLDS.core_latency.warning)
        THEN [acc EXCEPT !.results = Append(@, entry),
                         !.warnings = Append(@, message("WARNING"))]
        ELSE [acc EXCEPT !.results = Append(@, entry)]

\* one iteration of the loop of compare_core_performance
CoreIteration(acc, bench_name) ==
    LET baseline == GetBenchmarkByName(baseline_data.benchmarks, bench_name)
        current  == GetBenchmarkByName(current_data.benchmarks, bench_name)
        baseline_time == GetOrZero(baseline, "cpu_time")
        current_time  == GetOrZero(current, "cpu_time")
        change == CalculatePercentageChange(baseline_time, current_time)
        entry == [name           |-> bench_name,
                  baseline_time  |-> baseline_time,
                  current_time   |-> current_time,
                  change_percent |-> FMul(change, 100),
                  status |-> AssessPerformanceChange(change, "core_latency")]
        message(level) ==
            [level |-> level, subject |-> bench_name, what |-> "increased by",
             percent |-> Fixed1(FMul(change, 100)),
             from |-> FormatTime(baseline_time), to |-> FormatTime(current_time)]
    IN  IF ~(Truthy(baseline) /\ Truthy(current)) THEN acc
        ELSE IF FGt(change, REGRESSION_THRESHOLDS.core_latency.critical)
        THEN [acc EXCEPT !.results = Append(@, entry),
                         !.critical_issues = Append(@, message("CRITICAL"))]
        ELSE IF FGt(change, REGRESSION_THRESHOLDS.core_latency.warning)
        THEN [acc EXCEPT !.results = Append(@, entry),
                         !.warnings = Append(@, message("WARNING"))]
        ELSE [acc EXCEPT !.results = Append(@, entry)]

RECURSIVE CoreLoop(_, _)
CoreLoop(acc, i) ==
    IF i > Len(core_benchmarks) THEN acc
    ELSE CoreLoop(CoreIteration(acc, core_benchmarks[i]), i + 1)

\* compare_core_performance
CompareCorePerformance(w, c) ==
    CoreLoop([results |-> <<>>, warnings |-> w, critical_issues |-> c,
              raised |-> FALSE], 1)

\* mutant of the overhead difference: the change relative to the baseline overhead
OverheadChangeRelative(baseline_overhead, current_overhead) ==
    IF baseline_overhead[1] = 0 THEN Zero
    ELSE Frac(FSub(current_overhead, baseline_overhead)[1] * baseline_overhead[2],
              FSub(current_overhead, baseline_overhead)[2] * baseline_overhead[1])

\* overhead_change = current_overhead - baseline_overhead
OverheadChange(baseline_overhead, current_overhead) ==
    FSub(current_overhead, baseline_overhead)

\* compare_safety_overhead; raised: a subscript ['cpu_time'] found no such key
CompareSafetyOverhead(w, c) ==
    LET validate_only         == GetBenchmarkByName(baseline_data.benchmarks, safety_benchmarks[1])
        light_undo_baseline   == GetBenchmarkByName(baseline_data.benchmarks, safety_benchmarks[2])
        validate_only_current == GetBenchmarkByName(current_data.benchmarks, safety_benchmarks[1])
        light_undo_current    == GetBenchmarkByName(current_data.benchmarks, safety_benchmarks[2])
        four == <<validate_only, light_undo_baseline,
                  validate_only_current, light_undo_current>>
        acc == [results |-> <<>>, warnings |-> w, critical_issues |-> c,
                raised |-> FALSE]
    IN  IF \E i \in 1..4 : ~Truthy(four[i]) THEN acc
        ELSE IF \E i \in 1..4 : "cpu_time" \notin DOMAIN four[i]
        THEN [acc EXCEPT !.raised = TRUE]
        ELSE
          LET baseline_overhead == CalculatePercentageChange(
                  validate_only.cpu_time, light_undo_baseline.cpu_time)
              current_overhead == CalculatePercentageChange(
                  validate_only_current.cpu_time, light_undo_current.cpu_time)
              overhead_change == OverheadChange(baseline_overhead, current_overhead)
              result ==
                  [baseline_overhead_percent |-> FMul(baseline_overhead, 100),
                   current_overhead_percent  |-> FMul(current_overhead, 100),
                   overhead_change_percent   |-> FMul(overhead_change, 100),
                   status |-> AssessPerformanceChange(overhead_change, "safety_overhead")]
              message(level) ==
                  [level |-> level, subject |-> "Safety overhead",
                   what |-> "increased by",
                   percent |-> Fixed1(FMul(overhead_change, 100)),
                   from |-> <<Fixed1(FMul(baseline_overhead, 100)), "%">>,
                   to   |-> <<Fixed1(FMul(current_overhead, 100)), "%">>]
          IN  IF FGt(overhead_change, REGRESSION_THRESHOLDS.safety_overhead.critical)
              THEN [acc EXCEPT !.results = <<result>>,
                               !.critical_issues = Append(@, message("CRITICAL"))]
              ELSE IF FGt(overhead_change, REGRESSION_THRESHOLDS.safety_overhead.warning)
              THEN [acc EXCEPT !.results = <<result>>,
                               !.warnings = Append(@, message("WARNING"))]
              ELSE [acc EXCEPT !.results = <<result>>]

\* one iteration of the loop of compare_memory_performance
MemoryIteration(acc, bench_name) ==
    LET baseline == GetBenchmarkByName(baseline_data.benchmarks, bench_name)
        current  == GetBenchmarkByName(current_data.benchmarks, bench_name)
        baseline_throughput == GetOrZero(baseline, "bytes_per_second")
        current_throughput  == GetOrZero(current, "bytes_per_second")
        change == CalculatePercentageChange(baseline_throughput, current_throughput)
        entry == [name                |-> bench_name,
                  baseline_throughput |-> baseline_throughput,
                  current_throughput  |-> current_throughput,
                  change_percent      |-> FMul(change, 100),
                  status              |-> AssessThroughputChange(change)]
        message(level) ==
            [level |-> level, subject |-> bench_name,
             what |-> "throughput decreased by",
             percent |-> Fixed1(FMul(FAbs(change), 100)),
             from |-> <<>>, to |-> <<>>]
    IN  IF ~(Truthy(baseline) /\ Truthy(current)) THEN acc
        ELSE IF FLt(change, FNeg(REGRESSION_THRESHOLDS.throughput.critical))
        THEN [acc EXCEPT !.results = Append(@, entry),
                         !.critical_issues = Append(@, message("CRITICAL"))]
        ELSE IF FLt(change, FNeg(REGRESSION_THRESHOLDS.throughput.warning))
        THEN [acc EXCEPT !.results = Append(@, entry),
                         !.warnings = Append(@, message("WARNING"))]
        ELSE [acc EXCEPT !.results = Append(@, entry)]

RECURSIVE MemoryLoop(_, _)
MemoryLoop(acc, i) ==
    IF i > Len(memory_benchmarks) THEN acc
    ELSE MemoryLoop(MemoryIteration(acc, memory_benchmarks[i]), i + 1)

\* compare_memory_performance
CompareMemoryPerformance(w, c) ==
    MemoryLoop([results |-> <<>>, warnings |-> w, critical_issues |-> c,
                raised |-> FALSE], 1)

-----------------------------------------------------------------------------
(* Report *)

baseline_file == "baseline.json"
current_file  == "current.json"

Text(t) == [kind |-> "text", text |-> t]

\* bench_name.replace('BM_MakeMove_', '').replace('_mean', '')
CoreCleanName(bench_name) ==
    CASE bench_name = "BM_MakeMove_ShortChain_mean"  -> "ShortChain"
      [] bench_name = "BM_MakeMove_MediumChain_mean" -> "MediumChain"
      [] bench_name = "BM_MakeMove_LongChain_mean"   -> "LongChain"

\* bench_name.replace('BM_MakeMove_MemoryTracking/', '').replace('_mean', '')
MemoryCleanName(bench_name) ==
    CASE bench_name = "BM_MakeMove_MemoryTracking/64_mean"  -> "64"
      [] bench_name = "BM_MakeMove_MemoryTracking/256_mean" -> "256"

CoreLine(data) ==
    [kind |-> "core", name |-> CoreCleanName(data.name),
     from |-> FormatTime(data.baseline_time),
     to |-> FormatTime(data.current_time),
     percent |-> Fixed1(data.change_percent), status |-> data.status]

SafetyLines(safety_results) ==
    IF safety_results # <<>>
    THEN <<[kind |-> "overhead", label |-> "Baseline overhead",
            percent |-> Fixed2(safety_results[1].baseline_overhead_percent)],
           [kind |-> "overhead", label |-> "Current overhead",
            percent |-> Fixed2(safety_results[1].current_overhead_percent)],
           [kind |-> "overhead_change",
            percent |-> Fixed2(safety_results[1].overhead_change_percent),
            status |-> safety_results[1].status]>>
    ELSE <<Text("Safety overhead data not available")>>

MemoryLine(data) ==
    [kind |-> "memory", name |-> MemoryCleanName(data.name),
     percent |-> Fixed1(data.change_percent), status |-> data.status]

IssueLines(issues) == [i \in 1..Len(issues) |-> [kind |-> "issue", issue |-> issues[i]]]

\* the summary section of generate_report, from the two lists
SummaryLines(w, c) ==
    (IF c # <<>> THEN <<Text("CRITICAL ISSUES DETECTED:")>> \o IssueLines(c) ELSE <<>>)
    \o (IF w # <<>> THEN <<Text("WARNINGS:")>> \o IssueLines(w) ELSE <<>>)
    \o (IF c = <<>> /\ w = <<>>
        THEN <<Text("No performance regressions detected")>> ELSE <<>>)

\* the text generate_report joins, from the results of the three comparisons
\* and the two lists as the last comparison left them
ReportText(core_results, safety_results, memory_results, w, c) ==
    <<Text("============"), Text("BENCHMARK REGRESSION ANALYSIS REPORT"),
      Text("============"),
      [kind |-> "file", label |-> "Baseline", file |-> baseline_file],
      [kind |-> "file", label |-> "Current", file |-> current_file],
      Text("")>>
    \o <<Text("CORE PERFORMANCE ANALYSIS"), Text("--------")>>
    \o [i \in 1..Len(core_results) |-> CoreLine(core_results[i])]
    \o <<Text("")>>
    \o <<Text("SAFETY SYSTEM OVERHEAD ANALYSIS"), Text("--------")>>
    \o SafetyLines(safety_results)
    \o <<Text("")>>
    \o <<Text("MEMORY PERFORMANCE ANALYSIS"), Text("--------")>>
    \o [i \in 1..Len(memory_results) |-> MemoryLine(memory_results[i])]
    \o <<Text("")>>
    \o <<Text("SUMMARY"), Text("--------")>>
    \o SummaryLines(w, c)
    \o <<Text(""), Text("============")>>

\* generate_report from line 270 on, given what the first two comparisons returned
ReportAfterMemory(core, safety, memory) ==
    [raised |-> FALSE, warnings |-> memory.warnings,
     critical_issues |-> memory.critical_issues,
     results |-> [core |-> core.results, safety |-> safety.results,
                  memory |-> memory.results],
     report |-> ReportText(core.results, safety.results, memory.results,
                           memory.warnings, memory.critical_issues)]

\* generate_report from line 257 on; when compare_safety_overhead raises, no
\* text is returned and the lists stay as compare_core_performance left them
ReportAfterSafety(core, safety) ==
    IF safety.raised
    THEN [raised |-> TRUE, warnings |-> core.warnings,
          critical_issues |-> core.critical_issues,
          results |-> [core |-> core.results, safety |-> <<>>, memory |-> <<>>],
          report |-> <<>>]
    ELSE ReportAfterMemory(core, safety,
            CompareMemoryPerformance(safety.warnings, safety.critical_issues))

\* generate_report from line 246 on
ReportAfterCore(core) ==
    ReportAfterSafety(core,
        CompareSafetyOverhead(core.warnings, core.critical_issues))

\* generate_report, called with the comparator's lists w and c: the lists as
\* it leaves them, the results of its three comparisons and the text it returns
GenerateReport(w, c) == ReportAfterCore(CompareCorePerformance(w, c))

\* get_exit_code
GetExitCode(w, c) ==
    IF c # <<>> THEN 2
    ELSE IF w # <<>> THEN 1
    ELSE 0

-----------------------------------------------------------------------------
(* Input documents *)

Rec(n, t) == [name |-> n, cpu_time |-> t]
RecB(n, t, b) == [name |-> n, cpu_time |-> t, bytes_per_second |-> b]
RecNoTime(n) == [name |-> n]

Short  == core_benchmarks[1]
Medium == core_benchmarks[2]
Long   == core_benchmarks[3]
Off    == safety_benchmarks[1]
On     == safety_benchmarks[2]
Mem64  == memory_benchmarks[1]
Mem256 == memory_benchmarks[2]

SeqsUpTo(S, n) == UNION {[1..k -> S] : k \in 0..n}

\* a document that parses, in one of the two shapes
Wrapped(seq) == [kind |-> "json", shape |-> "wrapped",
                 value |-> [context |-> "ctx", benchmarks |-> seq]]
Bare(seq) == [kind |-> "json", shape |-> "bare", value |-> seq]
NotFound  == [kind |-> "NotFound"]
Malformed == [kind |-> "Malformed"]

\* Each family pairs a few baseline documents with every current document of
\* at most MaxRecords records over the family's records.
Families ==
    { \* core latency, with the changes around -5%, 10% and 25%
      [baselines |-> { <<Rec(Short, 100), Rec(Medium, 100)>>,
                       <<Rec(Short, 0), RecNoTime(Medium)>>,
                       <<Rec(Medium, 100)>> },
       records |-> {Rec(Short, t) : t \in {94, 95, 100, 110, 111, 125, 126}}
                   \cup {RecNoTime(Short), Rec(Medium, 111)}],
      \* safety overhead, baseline overhead 10%, 5%, 0 or incomplete
      [baselines |-> { <<Rec(Off, 100), Rec(On, 110)>>,
                       <<Rec(Off, 100), Rec(On, 105)>>,
                       <<Rec(Off, 0), Rec(On, 110)>>,
                       <<Rec(Off, 100)>>,
                       <<RecNoTime(Off), Rec(On, 110)>> },
       records |-> {Rec(On, t) : t \in {104, 109, 110, 115, 116, 118, 125, 126}}
                   \cup {Rec(Off, 100), RecNoTime(On)}],
      \* memory throughput, with the changes around -30%, -15% and 5%
      [baselines |-> { <<RecB(Mem64, 100, 100), RecB(Mem256, 100, 100)>>,
                       <<RecB(Mem64, 100, 0), Rec(Mem256, 100)>>,
                       <<RecB(Mem256, 100, 100)>> },
       records |-> {RecB(Mem64, 100, b) : b \in {69, 70, 84, 85, 100, 105, 106, 120}}
                   \cup {Rec(Mem64, 100), RecB(Mem256, 100, 84)}],
      \* all sections at once
      [baselines |-> { <<Rec(Short, 100), Rec(Medium, 100), Rec(Long, 100),
                         Rec(Off, 100), Rec(On, 110),
                         RecB(Mem64, 100, 100), RecB(Mem256, 100, 100)>> },
       records |-> {Rec(Short, 126), Rec(Long, 111), Rec(Off, 100), Rec(On, 116),
                    RecB(Mem64, 100, 69), RecB(Mem256, 100, 84),
                    Rec("BM_Other", 5)}] }

Shapes(seqs) == {Wrapped(q) : q \in seqs} \cup {Bare(q) : q \in seqs}

Scenarios ==
    UNION {[baseline : Shapes(f.baselines) \cup {NotFound, Malformed},
            current  : Shapes(SeqsUpTo(f.records, MaxRecords))
                       \cup {NotFound, Malformed}] : f \in Families}

-----------------------------------------------------------------------------
(* main() *)

NoResults == [core |-> <<>>, safety |-> <<>>, memory |-> <<>>]

Init ==
    /\ files \in Scenarios
    /\ exit_on_regression \in BOOLEAN
    /\ output \in BOOLEAN
    /\ pc = "load_baseline"
    /\ baseline_data = <<>>
    /\ current_data = <<>>
    /\ warnings = <<>>
    /\ critical_issues = <<>>
    /\ results = NoResults
    /\ report = <<>>
    /\ first = <<>>
    /\ generated = 0
    /\ stdout = <<>>
    /\ stderr = <<>>
    /\ outfile = <<>>
    /\ exit_code = <<>>

\* __init__, line 35: self.baseline_data = self._load_json(baseline_file)
LoadBaseline ==
    /\ pc = "load_baseline"
    /\ IF LoadFails(files.baseline)
       THEN /\ stdout' = Append(stdout, LoadErrorMessage(files.baseline, baseline_file))
            /\ exit_code' = <<1>>
            /\ pc' = "exited"
            /\ UNCHANGED baseline_data
       ELSE /\ baseline_data' = NormalizeJson(files.baseline)
            /\ pc' = "load_current"
            /\ UNCHANGED <<stdout, exit_code>>
    /\ UNCHANGED <<files, exit_on_regression, output, current_data, warnings,
                   critical_issues, results, report, first, generated, stderr,
                   outfile>>

\* mutant of the second load: a document that fails to load counts as empty
LoadCurrentSwallowsError ==
    /\ pc = "load_current"
    /\ current_data' = IF LoadFails(files.current) THEN [benchmarks |-> <<>>]
                       ELSE NormalizeJson(files.current)
    /\ warnings' = <<>>
    /\ critical_issues' = <<>>
    /\ pc' = "generate"
    /\ UNCHANGED <<files, exit_on_regression, output, baseline_data, results,
                   report, first, generated, stdout, stderr, outfile, exit_code>>

\* __init__, lines 36-38
LoadCurrent ==
    /\ pc = "load_current"
    /\ IF LoadFails(files.current)
       THEN /\ stdout' = Append(stdout, LoadErrorMessage(files.current, current_file))
            /\ exit_code' = <<1>>
            /\ pc' = "exited"
            /\ UNCHANGED <<current_data, warnings, critical_issues>>
       ELSE /\ current_data' = NormalizeJson(files.current)
            /\ warnings' = <<>>
            /\ critical_issues' = <<>>
            /\ pc' = "generate"
            /\ UNCHANGED <<stdout, exit_code>>
    /\ UNCHANGED <<files, exit_on_regression, output, baseline_data, results,
                   report, first, generated, stderr, outfile>>

\* the comparator and the caller after a call of generate_report that
\* returned or raised r; an exception it raises is not caught anywhere: the
\* interpreter prints the traceback and exits with 1
AfterGenerateReport(r) ==
    /\ warnings' = r.warnings
    /\ critical_issues' = r.critical_issues
    /\ results' = r.results
    /\ IF r.raised
       THEN /\ stderr' = Append(stderr, "KeyError: 'cpu_time'")
            /\ exit_code' = <<1>>
            /\ pc' = "exited"
            /\ UNCHANGED <<report, first, generated>>
       ELSE /\ report' = r.report
            /\ generated' = generated + 1
            /\ first' = IF generated = 0
                        THEN <<[report |-> r.report, warnings |-> r.warnings,
                                critical_issues |-> r.critical_issues,
                                exit_code |-> GetExitCode(r.warnings,
                                                          r.critical_issues)]>>
                        ELSE first
            /\ pc' = "output"
            /\ UNCHANGED <<stderr, exit_code>>
    /\ UNCHANGED <<files, exit_on_regression, output, baseline_data,
                   current_data, stdout, outfile>>

CallGenerateReport == AfterGenerateReport(GenerateReport(warnings, critical_issues))

\* main, line 323
Generate ==
    /\ pc = "generate"
    /\ CallGenerateReport

\* a client that holds the comparator calls generate_report on it again
GenerateAgain ==
    /\ pc = "output"
    /\ generated < MaxGenerations
    /\ CallGenerateReport

\* main, lines 326-331
OutputReport ==
    /\ pc = "output"
    /\ IF output
       THEN /\ outfile' = report
            /\ stdout' = Append(stdout, <<"Report written to", "report.txt">>)
       ELSE /\ stdout' = Append(stdout, report)
            /\ UNCHANGED outfile
    /\ pc' = "exit"
    /\ UNCHANGED <<files, exit_on_regression, output, baseline_data, current_data,
                   warnings, critical_issues, results, report, first, generated,
                   stderr, exit_code>>

\* main, lines 334-338, and the return of main without sys.exit
Exit ==
    /\ pc = "exit"
    /\ IF exit_on_regression
       THEN LET code == GetExitCode(warnings, critical_issues)
            IN  /\ exit_code' = <<code>>
                /\ stdout' = IF code # 0
                             THEN Append(stdout, <<"Exiting with code", code>>)
                             ELSE stdout
       ELSE /\ exit_code' = <<0>>
            /\ UNCHANGED stdout
    /\ pc' = "exited"
    /\ UNCHANGED <<files, exit_on_regression, output, baseline_data, current_data,
                   warnings, critical_issues, results, report, first, generated,
                   stderr, outfile>>

Next == LoadBaseline \/ LoadCurrent \/ Generate \/ OutputReport \/ Exit

Spec == Init /\ [][Next]_vars

NextRepeat == Next \/ GenerateAgain

SpecRepeat == Init /\ [][NextRepeat]_vars

-----------------------------------------------------------------------------
(* Vocabulary of the properties *)

BothParse == files.baseline.kind = "json" /\ files.current.kind = "json"

\* a record named name is in the loaded result set
InSet(data, name) ==
    \E i \in 1..Len(data.benchmarks) : data.benchmarks[i].name = name
InBoth(name) == InSet(baseline_data, name) /\ InSet(current_data, name)

\* the first record named name of a loaded result set
RecordOf(data, name) ==
    data.benchmarks[CHOOSE i \in 1..Len(data.benchmarks) :
        /\ data.benchmarks[i].name = name
        /\ \A j \in 1..(i - 1) : data.benchmarks[j].name # name]

Field(rec, key) == IF key \in DOMAIN rec THEN rec[key] ELSE 0

Count(seq, P(_)) == Cardinality({i \in 1..Len(seq) : P(seq[i])})

\* every comparison result of the last generation, with the subject its
\* messages carry
AllResults ==
    [i \in 1..Len(results.core) |->
        [subject |-> results.core[i].name, status |-> results.core[i].status]]
    \o [i \in 1..Len(results.safety) |->
        [subject |-> "Safety overhead", status |-> results.safety[i].status]]
    \o [i \in 1..Len(results.memory) |->
        [subject |-> results.memory[i].name, status |-> results.memory[i].status]]

\* 100 * (current - baseline) / baseline as an exact fraction, 0 for baseline 0
PercentOf(baseline, current) ==
    IF baseline = 0 THEN <<0, 1>>
    ELSE IF baseline > 0 THEN <<100 * (current - baseline), baseline>>
    ELSE <<100 * (baseline - current), -baseline>>

\* percent p carries status st under thresholds warn% and crit%, regression
\* being an increase
LatencyRule(p, st, warn, crit) ==
    /\ (st = "CRITICAL") <=> FGt(p, FInt(crit))
    /\ (st = "WARNING") <=> (~FGt(p, FInt(crit)) /\ FGt(p, FInt(warn)))
    /\ (st = "IMPROVEMENT") <=> (~FGt(p, FInt(warn)) /\ FLt(p, FInt(-5)))
    /\ (st = "OK") <=> (~FGt(p, FInt(warn)) /\ ~FLt(p, FInt(-5)))

\* percent p carries status st under thresholds warn% and crit%, regression
\* being a decrease
ThroughputRule(p, st, warn, crit) ==
    /\ (st = "CRITICAL") <=> FLt(p, FInt(-crit))
    /\ (st = "WARNING") <=> (~FLt(p, FInt(-crit)) /\ FLt(p, FInt(-warn)))
    /\ (st = "IMPROVEMENT") <=> (~FLt(p, FInt(-warn)) /\ FGt(p, FInt(5)))
    /\ (st = "OK") <=> (~FLt(p, FInt(-warn)) /\ ~FGt(p, FInt(5)))

-----------------------------------------------------------------------------
(* Properties *)

\* C1: when both documents load, the exit status of the process is decided by
\* --exit-on-regression and the two lists: with the flag 2 if critical_issues
\* is non-empty, else 1 if warnings is non-empty, else 0; without it 0.
C1_ExitStatusByFlagAndLists ==
    (BothParse /\ pc = "exited") =>
        exit_code = <<IF ~exit_on_regression THEN 0
                       ELSE IF critical_issues # <<>> THEN 2
                       ELSE IF warnings # <<>> THEN 1
                       ELSE 0>>

\* C2: a document that is not found or is malformed ends the invocation with
\* status 1 at the load that meets it: nothing is compared, no report exists
\* or is written, with or without --exit-on-regression; when it is the
\* baseline, the current document is never loaded.
C2_LoadErrorTerminates ==
    /\ files.baseline.kind # "json" =>
          /\ pc \in {"load_baseline", "exited"}
          /\ current_data = <<>>
    /\ files.current.kind # "json" =>
          pc \in {"load_baseline", "load_current", "exited"}
    /\ (~BothParse /\ pc = "exited") =>
          /\ exit_code = <<1>>
          /\ generated = 0 /\ results = NoResults /\ report = <<>>
          /\ warnings = <<>> /\ critical_issues = <<>>
          /\ outfile = <<>> /\ Len(stdout) = 1 /\ stderr = <<>>

C2_Witness ==
    /\ files.baseline.kind = "json"
    /\ files.current.kind = "Malformed"
    /\ ~exit_on_regression
    /\ baseline_data # <<>>
    /\ pc = "exited"

\* C3: after one generation every comparison result has exactly one entry in
\* critical_issues iff it is CRITICAL, exactly one in warnings iff it is
\* WARNING, and none otherwise; the lengths of the lists are the numbers of
\* CRITICAL and of WARNING results.
C3_OneListPerResult ==
    generated = 1 =>
        /\ \A i \in 1..Len(AllResults) :
              LET r == AllResults[i]
                  About(m) == m.subject = r.subject
              IN  /\ Count(critical_issues, About) =
                        (IF r.status = "CRITICAL" THEN 1 ELSE 0)
                  /\ Count(warnings, About) =
                        (IF r.status = "WARNING" THEN 1 ELSE 0)
        /\ LET IsCritical(r) == r.status = "CRITICAL"
               IsWarning(r) == r.status = "WARNING"
           IN  /\ Len(critical_issues) = Count(AllResults, IsCritical)
               /\ Len(warnings) = Count(AllResults, IsWarning)

C3_Witness ==
    /\ generated = 1
    /\ critical_issues # <<>>
    /\ warnings # <<>>
    /\ Len(AllResults) = 2

\* C4: in latency mode the status is CRITICAL iff change > critical, else
\* WARNING iff change > warning, else IMPROVEMENT iff change < -5%, else OK,
\* with 10% / 25% for core latency and 5% / 15% for the safety overhead; a
\* change equal to a threshold is classified below it.
C4_LatencyClassification ==
    /\ \A i \in 1..Len(results.core) :
          LatencyRule(results.core[i].change_percent, results.core[i].status, 10, 25)
    /\ \A i \in 1..Len(results.safety) :
          LatencyRule(results.safety[i].overhead_change_percent,
                      results.safety[i].status, 5, 15)

C4_Witness ==
    \E i \in 1..Len(results.core) :
        /\ FEq(results.core[i].change_percent, FInt(25))
        /\ results.core[i].status = "WARNING"

\* C5: the memory metrics are compared on bytes_per_second and classified
\* with inverted polarity: CRITICAL iff change < -30%, else WARNING iff
\* change < -15%, else IMPROVEMENT iff change > 5%, else OK; an increase is
\* never WARNING or CRITICAL.
C5_ThroughputClassification ==
    \A i \in 1..Len(results.memory) :
        LET r == results.memory[i]
            p == PercentOf(Field(RecordOf(baseline_data, r.name), "bytes_per_second"),
                           Field(RecordOf(current_data, r.name), "bytes_per_second"))
        IN  /\ FEq(r.change_percent, p)
            /\ ThroughputRule(p, r.status, 15, 30)
            /\ FGt(p, Zero) => r.status \in {"OK", "IMPROVEMENT"}

C5_Witness ==
    /\ generated = 1
    /\ \E i \in 1..Len(results.memory) :
          /\ FEq(results.memory[i].change_percent, FInt(-16))
          /\ results.memory[i].status = "WARNING"
    /\ \E i \in 1..Len(results.memory) :
          /\ FEq(results.memory[i].change_percent, FInt(20))
          /\ results.memory[i].status = "IMPROVEMENT"

\* C6: with the four overhead records present, the overhead comparison yields
\* the difference in percentage points between the current run's overhead and
\* the baseline run's overhead (each the change from the disabled to the
\* enabled measurement), classified with 5% / 15% in latency polarity.
C6_OverheadDelta ==
    (generated >= 1 /\ \A i \in 1..2 : InBoth(safety_benchmarks[i])) =>
        /\ Len(results.safety) = 1
        /\ LET bo == PercentOf(RecordOf(baseline_data, Off).cpu_time,
                               RecordOf(baseline_data, On).cpu_time)
               co == PercentOf(RecordOf(current_data, Off).cpu_time,
                               RecordOf(current_data, On).cpu_time)
               r == results.safety[1]
           IN  /\ FEq(r.baseline_overhead_percent, bo)
               /\ FEq(r.current_overhead_percent, co)
               /\ FEq(r.overhead_change_percent, FSub(co, bo))
               /\ LatencyRule(FSub(co, bo), r.status, 5, 15)

C6_Witness ==
    /\ generated = 1
    /\ Len(results.safety) = 1
    /\ FEq(results.safety[1].baseline_overhead_percent, FInt(5))
    /\ FEq(results.safety[1].current_overhead_percent, FInt(9))
    /\ FEq(results.safety[1].overhead_change_percent, FInt(4))
    /\ results.safety[1].status = "OK"

\* C7: a result, a report line or a list entry for a named core-latency or
\* memory metric exists only if a record of that name is in both sets, and a
\* metric that is in both sets has its result, from its own records, whatever
\* else is missing; with any of the four overhead records missing there is no
\* overhead result, no list entry for it, and the report says the section is
\* not available.
C7_MissingInputsNoOutput ==
    generated >= 1 =>
        /\ \A k \in 1..Len(core_benchmarks) :
              LET name == core_benchmarks[k]
                  Named(r) == r.name = name
                  About(m) == m.subject = name
                  Line(l) == l.kind = "core" /\ l.name = CoreCleanName(name)
              IN  /\ ~InBoth(name) =>
                        /\ Count(results.core, Named) = 0
                        /\ Count(report, Line) = 0
                        /\ Count(warnings, About) = 0
                        /\ Count(critical_issues, About) = 0
                  /\ InBoth(name) =>
                        /\ Count(results.core, Named) = 1
                        /\ Count(report, Line) = 1
                        /\ \A i \in 1..Len(results.core) : Named(results.core[i]) =>
                              /\ results.core[i].baseline_time =
                                    Field(RecordOf(baseline_data, name), "cpu_time")
                              /\ results.core[i].current_time =
                                    Field(RecordOf(current_data, name), "cpu_time")
        /\ \A k \in 1..Len(memory_benchmarks) :
              LET name == memory_benchmarks[k]
                  Named(r) == r.name = name
                  About(m) == m.subject = name
                  Line(l) == l.kind = "memory" /\ l.name = MemoryCleanName(name)
              IN  /\ ~InBoth(name) =>
                        /\ Count(results.memory, Named) = 0
                        /\ Count(report, Line) = 0
                        /\ Count(warnings, About) = 0
                        /\ Count(critical_issues, About) = 0
                  /\ InBoth(name) =>
                        /\ Count(results.memory, Named) = 1
                        /\ Count(report, Line) = 1
        /\ LET About(m) == m.subject = "Safety overhead"
               Line(l) == l.kind \in {"overhead", "overhead_change"}
               Unavailable(l) == l = Text("Safety overhead data not available")
           IN  (\E i \in 1..2 : ~InBoth(safety_benchmarks[i])) =>
                  /\ results.safety = <<>>
                  /\ Count(warnings, About) = 0
                  /\ Count(critical_issues, About) = 0
                  /\ Count(report, Line) = 0
                  /\ Count(report, Unavailable) = 1

C7_Witness ==
    /\ generated = 1
    /\ InBoth(Short)
    /\ InSet(baseline_data, Medium) /\ ~InSet(current_data, Medium)
    /\ Len(results.core) = 1
    /\ ~InSet(current_data, On)
    /\ results.safety = <<>>

\* C8: the change is (current - baseline) / baseline for a non-zero baseline
\* and 0 for a zero baseline whatever the current value; equal values give
\* change 0 and status OK, in latency mode and in throughput mode.
C8_ChangeFraction ==
    /\ \A i \in 1..Len(results.core) :
          LET r == results.core[i]
              p == r.change_percent
          IN  /\ r.baseline_time = 0 => p[1] = 0
              /\ r.baseline_time # 0 =>
                    p[1] * r.baseline_time =
                        100 * (r.current_time - r.baseline_time) * p[2]
              /\ r.baseline_time = r.current_time => (p[1] = 0 /\ r.status = "OK")
    /\ \A i \in 1..Len(results.memory) :
          LET r == results.memory[i]
              p == r.change_percent
          IN  /\ r.baseline_throughput = 0 => p[1] = 0
              /\ r.baseline_throughput # 0 =>
                    p[1] * r.baseline_throughput =
                        100 * (r.current_throughput - r.baseline_throughput) * p[2]
              /\ r.baseline_throughput = r.current_throughput =>
                    (p[1] = 0 /\ r.status = "OK")

C8_Witness ==
    /\ generated = 1
    /\ \E i \in 1..Len(results.core) :
          /\ results.core[i].baseline_time = 0
          /\ results.core[i].current_time > 0
          /\ results.core[i].status = "OK"

\* C9: when both documents load, whatever their shape and whatever fields
\* their records carry, the three comparisons complete and a report is
\* produced: nothing but a load error ends the invocation early.
C9_OnlyLoadErrorAborts ==
    (BothParse /\ pc = "exited") =>
        /\ generated >= 1
        /\ report # <<>>
        /\ stderr = <<>>

\* C10: generating the report again on the same comparator gives the same
\* text, the same two lists and the same exit code as the first generation.
C10_RepeatableReport ==
    generated >= 2 =>
        /\ report = first[1].report
        /\ warnings = first[1].warnings
        /\ critical_issues = first[1].critical_issues
        /\ GetExitCode(warnings, critical_issues) = first[1].exit_code

=============================================================================
